---- MODULE Spec2Model ----
(***************************************************************************)
(* The exam-hall seating page: the Index page state (students, hallConfig, *)
(* seatAssignments), the StudentRegistration, ExamHallConfig and Dashboard *)
(* handlers that change it, and the FacialRecognition component with its   *)
(* asynchronous scan (camera acquisition, 2 s delay, 3 s status reset).    *)
(***************************************************************************)
EXTENDS Integers, Sequences, FiniteSets, TLC

VARIABLES
  students,         \* Index: useState<Student[]>
  hallConfig,       \* Index: useState<ExamHallData | null>
  seatAssignments,  \* Index: useState<SeatAssignment[]>
  activeTab,        \* which TabsContent is mounted
  isScanning,       \* FacialRecognition: useState(false)
  lastRecognized,   \* FacialRecognition: useState<Student | null>
  recognitionStatus,\* FacialRecognition: 'idle' | 'scanning' | 'success' | 'failed'
  streamRef,        \* FacialRecognition: streamRef.current is a stream
  renderedStream,   \* streamRef.current as read by the last render (which buttons show)
  pending,          \* async continuations in flight, in registration order
  clock,            \* last value Date.now() returned
  toastRerenders,   \* the build: a toast re-renders the components that call useToast
  lastEvent         \* the handler that ran last, its notification and what it saw

vars == <<students, hallConfig, seatAssignments, activeTab, isScanning,
          lastRecognized, recognitionStatus, streamRef, renderedStream,
          pending, clock, toastRerenders, lastEvent>>

indexVars == <<students, hallConfig, seatAssignments>>
recogVars == <<isScanning, lastRecognized, recognitionStatus, streamRef, renderedStream>>

----------------------------------------------------------------------------
\* Bounds of the model.
MaxStudents == 2    \* registrations accepted
MaxRows == 1        \* rows the hall form may hold
MaxSeats == 2       \* seats per row the hall form may hold
MaxPending == 2     \* async continuations in flight at once
\* Bounds of the inputs the handlers are applied to one by one.
UnitStudents == 3   \* length of the student list
UnitRows == 2       \* rows of the hall
UnitSeats == 2      \* seats per row of the hall
UnitPrior == 1      \* length of the assignment list a generation replaces
UnitList == 2       \* length of the assignment list the seat finder scans

\* JavaScript null, for Student | null, ExamHallData | null and the finder's result.
NULL == [null |-> TRUE]

Tabs == {"dashboard", "students", "hall", "recognition", "seating"}

Min(a, b) == IF a < b THEN a ELSE b

----------------------------------------------------------------------------
\* Pure functions of the Index page.

RECURSIVE FindLoop(_, _, _, _)
\* FindLoop with the student test of isOccupied left out: an entry without a
\* student occupies its seat.
FindLoop_AnyEntryOccupies(hall, assignments, row, seat) ==
  IF row > hall.rows THEN NULL
  ELSE IF seat > hall.seatsPerRow THEN FindLoop(hall, assignments, row + 1, 1)
  ELSE LET isOccupied == \E i \in 1..Len(assignments) :
                            /\ assignments[i].row = row
                            /\ assignments[i].seat = seat
       IN IF ~isOccupied THEN [row |-> row, seat |-> seat]
          ELSE FindLoop(hall, assignments, row, seat + 1)

\* The nested for-loops of findNextAvailableSeat, from (row, seat) onwards.
FindLoop(hall, assignments, row, seat) ==
  IF row > hall.rows THEN NULL
  ELSE IF seat > hall.seatsPerRow THEN FindLoop(hall, assignments, row + 1, 1)
  ELSE LET isOccupied == \E i \in 1..Len(assignments) :
                            /\ assignments[i].row = row
                            /\ assignments[i].seat = seat
                            /\ assignments[i].student # NULL
       IN IF ~isOccupied THEN [row |-> row, seat |-> seat]
          ELSE FindLoop(hall, assignments, row, seat + 1)

\* findNextAvailableSeat over the hallConfig and seatAssignments its closure holds.
findNextAvailableSeat(hall, assignments) ==
  IF hall = NULL THEN NULL ELSE FindLoop(hall, assignments, 1, 1)

RECURSIVE GenOuter(_, _, _, _, _)
RECURSIVE GenInner(_, _, _, _, _, _)
\* GenInner with the seat test off by one: the last seat of a row stays empty.
GenInner_SkipsLastSeat(hall, studs, row, seat, studentIndex, newAssignments) ==
  IF seat < hall.seatsPerRow /\ studentIndex < Len(studs)
  THEN GenInner(hall, studs, row, seat + 1, studentIndex + 1,
                Append(newAssignments,
                       [row |-> row, seat |-> seat, student |-> studs[studentIndex + 1]]))
  ELSE GenOuter(hall, studs, row + 1, studentIndex, newAssignments)

\* The inner for-loop of generateAutomaticSeating: seats of one row.
GenInner(hall, studs, row, seat, studentIndex, newAssignments) ==
  IF seat <= hall.seatsPerRow /\ studentIndex < Len(studs)
  THEN GenInner(hall, studs, row, seat + 1, studentIndex + 1,
                Append(newAssignments,
                       [row |-> row, seat |-> seat, student |-> studs[studentIndex + 1]]))
  ELSE GenOuter(hall, studs, row + 1, studentIndex, newAssignments)

\* GenOuter with the row test off by one: a row past the last is filled.
GenOuter_OneRowMore(hall, studs, row, studentIndex, newAssignments) ==
  IF row <= hall.rows + 1 /\ studentIndex < Len(studs)
  THEN GenInner(hall, studs, row, 1, studentIndex, newAssignments)
  ELSE newAssignments

\* The outer for-loop of generateAutomaticSeating: rows.
GenOuter(hall, studs, row, studentIndex, newAssignments) ==
  IF row <= hall.rows /\ studentIndex < Len(studs)
  THEN GenInner(hall, studs, row, 1, studentIndex, newAssignments)
  ELSE newAssignments

RECURSIVE PadFrom(_, _, _)
\* acc, then an entry without a student for the i-th and every later seat.
PadFrom(hall, i, acc) ==
  IF i > hall.rows * hall.seatsPerRow THEN acc
  ELSE PadFrom(hall, i + 1,
               Append(acc, [row |-> ((i - 1) \div hall.seatsPerRow) + 1,
                            seat |-> ((i - 1) % hall.seatsPerRow) + 1,
                            student |-> NULL]))

\* NewAssignments that goes on to list the seats left over, without a student.
NewAssignments_Padded(hall, studs) ==
  LET filled == GenOuter(hall, studs, 1, 0, <<>>)
  IN PadFrom(hall, Len(filled) + 1, filled)

\* The list generateAutomaticSeating hands to setSeatAssignments.
NewAssignments(hall, studs) == GenOuter(hall, studs, 1, 0, <<>>)

\* SeatingAfterGenerate as an update of the list, not a replacement.
SeatingAfterGenerate_Appends(hall, studs, prev) ==
  IF hall = NULL THEN prev ELSE prev \o NewAssignments(hall, studs)

\* seatAssignments after generateAutomaticSeating, given the list before it.
SeatingAfterGenerate(hall, studs, prev) ==
  IF hall = NULL THEN prev ELSE NewAssignments(hall, studs)

\* SeatingAfterRecognized without the test of nextSeat: with no seat found the
\* student is appended at no seat.
SeatingAfterRecognized_NoSeatCheck(configured, nextSeat, student, prev) ==
  IF ~configured THEN prev
  ELSE IF nextSeat # NULL
       THEN Append(prev, [row |-> nextSeat.row, seat |-> nextSeat.seat,
                          student |-> student])
       ELSE Append(prev, [row |-> 0, seat |-> 0, student |-> student])

\* seatAssignments after handleStudentRecognized: configured and nextSeat come
\* from the hallConfig and seatAssignments of the handler's closure, the append
\* is a functional update of the current list (prev).
SeatingAfterRecognized(configured, nextSeat, student, prev) ==
  IF ~configured THEN prev
  ELSE IF nextSeat # NULL
       THEN Append(prev, [row |-> nextSeat.row, seat |-> nextSeat.seat,
                          student |-> student])
       ELSE prev

\* SeatingAfterConfigured without the reset.
SeatingAfterConfigured_Keeps(prev) == prev

\* seatAssignments after handleHallConfigured, given the list before it.
SeatingAfterConfigured(prev) == <<>>

----------------------------------------------------------------------------
\* Values.

\* The Student object StudentRegistration.handleSubmit builds.
Student(t, name, email, rollNumber, photo) ==
  [id |-> ToString(t), name |-> name, email |-> email,
   rollNumber |-> rollNumber, photo |-> photo]

\* HallData with the sum for the product.
HallData_TotalIsSum(name, rows, seatsPerRow) ==
  [name |-> name, rows |-> rows, seatsPerRow |-> seatsPerRow,
   totalSeats |-> rows + seatsPerRow]

\* The ExamHallData object ExamHallConfig.handleSubmit builds: formData and
\* the totalSeats computed by the render that showed the form.
HallData(name, rows, seatsPerRow) ==
  [name |-> name, rows |-> rows, seatsPerRow |-> seatsPerRow,
   totalSeats |-> rows * seatsPerRow]

\* The capacity the Dashboard shows: hallConfig?.totalSeats || 0.
DashboardTotalSeats(hall) == IF hall = NULL THEN 0 ELSE hall.totalSeats

\* The capacity the SeatingChart computes from its rows and seatsPerRow props.
ChartTotalSeats(rows, seatsPerRow) == rows * seatsPerRow

\* What the handler that ran last did: its name, the title of the toast it
\* raised ("" for none), the length seatAssignments had before the handler,
\* and the seat findNextAvailableSeat returned to it (NULL when it returned
\* none or was not called).
Event(op, toast, seat) ==
  [op |-> op, toast |-> toast, preLen |-> Len(seatAssignments), seat |-> seat]

\* An async continuation: what it waits for ("camera": getUserMedia, "delay":
\* the 2000 ms timer, "reset": the 3000 ms timer), whether the component
\* instance that started it is still mounted, and what its closures captured
\* at the render it was started from: the students prop, and the Index's
\* hallConfig and seatAssignments. The closure never sees later values of the
\* last two and uses them only in handleStudentRecognized, so the continuation
\* carries their outcome: configured (hallConfig was not null) and nextSeat
\* (what findNextAvailableSeat returns on them).
Continuation(kind, live, studs, hall, assignments) ==
  [kind |-> kind, live |-> live, students |-> studs, configured |-> hall # NULL,
   nextSeat |-> findNextAvailableSeat(hall, assignments)]

ResetTimer(live) == Continuation("reset", live, <<>>, NULL, <<>>)

RemoveAt(seq, i) == SubSeq(seq, 1, i - 1) \o SubSeq(seq, i + 1, Len(seq))

RECURSIVE Orphaned(_)
\* The continuations of a component instance that has unmounted: its state
\* setters do nothing from now on, so its reset timers do nothing at all.
Orphaned(seq) ==
  IF seq = <<>> THEN <<>>
  ELSE IF Head(seq).kind = "reset" THEN Orphaned(Tail(seq))
  ELSE <<[Head(seq) EXCEPT !.live = FALSE]>> \o Orphaned(Tail(seq))

\* The state a freshly mounted FacialRecognition has.
RecogInitial ==
  /\ isScanning' = FALSE
  /\ lastRecognized' = NULL
  /\ recognitionStatus' = "idle"
  /\ streamRef' = FALSE
  /\ renderedStream' = FALSE

----------------------------------------------------------------------------
\* The page after construction: the Tabs default to the dashboard.
Init ==
  /\ students = <<>>
  /\ hallConfig = NULL
  /\ seatAssignments = <<>>
  /\ activeTab = "dashboard"
  /\ isScanning = FALSE
  /\ lastRecognized = NULL
  /\ recognitionStatus = "idle"
  /\ streamRef = FALSE
  /\ renderedStream = FALSE
  /\ pending = <<>>
  /\ clock = 1
  /\ toastRerenders \in BOOLEAN
  /\ lastEvent = [op |-> "init", toast |-> "", preLen |-> 0, seat |-> NULL]

\* The operator selects another tab: the old TabsContent unmounts, the new one
\* mounts. Unmounting FacialRecognition runs its effect cleanup (stopCamera)
\* and discards its state; continuations it started keep running.
SwitchTab(t) ==
  /\ t # activeTab
  /\ activeTab' = t
  /\ IF activeTab = "recognition"
     THEN /\ RecogInitial
          /\ pending' = Orphaned(pending)
     ELSE UNCHANGED <<recogVars, pending>>
  /\ lastEvent' = Event("switchTab", "", NULL)
  /\ UNCHANGED <<indexVars, clock, toastRerenders>>

\* handleStudentAdded that puts the new student first.
handleStudentAdded_Prepends(student) ==
  students' = <<student>> \o students

\* Index.handleStudentAdded.
handleStudentAdded(student) ==
  students' = Append(students, student)

\* The event of a registration submit: as Event, with the formData and photo
\* the handler read.
RegistrationEvent(op, toast, name, email, rollNumber, photo) ==
  [op |-> op, toast |-> toast, preLen |-> Len(seatAssignments), seat |-> NULL,
   form |-> [name |-> name, email |-> email, rollNumber |-> rollNumber,
             photo |-> photo]]

\* RegistrationSubmit without the test of the photo.
RegistrationSubmit_PhotoOptional(name, email, rollNumber, photo, t) ==
  /\ activeTab = "students"
  /\ IF name = "" \/ email = "" \/ rollNumber = ""
     THEN /\ lastEvent' = RegistrationEvent("registrationRejected", "Missing Information",
                                            name, email, rollNumber, photo)
          /\ UNCHANGED <<students, clock, toastRerenders>>
     ELSE /\ Len(students) < MaxStudents
          /\ handleStudentAdded(Student(t, name, email, rollNumber, photo))
          /\ clock' = t
          /\ UNCHANGED toastRerenders
          /\ lastEvent' = RegistrationEvent("studentRegistered", "Student Registered",
                                            name, email, rollNumber, photo)
  /\ UNCHANGED <<hallConfig, seatAssignments, activeTab, recogVars, pending>>

\* StudentRegistration.handleSubmit with the form holding (name, email,
\* rollNumber, photo), Date.now() returning t.
RegistrationSubmit(name, email, rollNumber, photo, t) ==
  /\ activeTab = "students"
  /\ IF name = "" \/ email = "" \/ rollNumber = "" \/ photo = NULL
     THEN /\ lastEvent' = RegistrationEvent("registrationRejected", "Missing Information",
                                            name, email, rollNumber, photo)
          /\ UNCHANGED <<students, clock, toastRerenders>>
     ELSE /\ Len(students) < MaxStudents
          /\ handleStudentAdded(Student(t, name, email, rollNumber, photo))
          /\ clock' = t
          /\ UNCHANGED toastRerenders
          /\ lastEvent' = RegistrationEvent("studentRegistered", "Student Registered",
                                            name, email, rollNumber, photo)
  /\ UNCHANGED <<hallConfig, seatAssignments, activeTab, recogVars, pending>>

\* Index.handleHallConfigured.
handleHallConfigured(config) ==
  /\ hallConfig' = config
  /\ seatAssignments' = SeatingAfterConfigured(seatAssignments)

\* HallSubmit with the test of rows off by one: zero rows pass.
HallSubmit_AcceptsZeroRows(name, rows, seatsPerRow) ==
  /\ activeTab = "hall"
  /\ IF name = "" \/ rows < 0 \/ seatsPerRow < 1
     THEN /\ lastEvent' = Event("hallRejected", "Invalid Configuration", NULL)
          /\ UNCHANGED <<hallConfig, seatAssignments>>
     ELSE /\ handleHallConfigured(HallData(name, rows, seatsPerRow))
          /\ lastEvent' = Event("hallConfigured", "Hall Configured", NULL)
  /\ UNCHANGED <<students, activeTab, recogVars, pending, clock, toastRerenders>>

\* ExamHallConfig.handleSubmit with the form holding (name, rows, seatsPerRow).
HallSubmit(name, rows, seatsPerRow) ==
  /\ activeTab = "hall"
  /\ IF name = "" \/ rows < 1 \/ seatsPerRow < 1
     THEN /\ lastEvent' = Event("hallRejected", "Invalid Configuration", NULL)
          /\ UNCHANGED <<hallConfig, seatAssignments>>
     ELSE /\ handleHallConfigured(HallData(name, rows, seatsPerRow))
          /\ lastEvent' = Event("hallConfigured", "Hall Configured", NULL)
  /\ UNCHANGED <<students, activeTab, recogVars, pending, clock, toastRerenders>>

\* Index.generateAutomaticSeating.
generateAutomaticSeating ==
  seatAssignments' = SeatingAfterGenerate(hallConfig, students, seatAssignments)

\* handleGenerateSeating without the test for an empty student list.
handleGenerateSeating_NoStudentCheck ==
  /\ IF hallConfig = NULL
     THEN /\ lastEvent' = Event("generateRejected", "Hall Not Configured", NULL)
          /\ UNCHANGED seatAssignments
     ELSE /\ generateAutomaticSeating
          /\ lastEvent' = Event("seatingGenerated", "Seating Generated", NULL)
  /\ UNCHANGED <<students, hallConfig, activeTab, recogVars, pending, clock, toastRerenders>>

\* Dashboard.handleGenerateSeating.
handleGenerateSeating ==
  /\ IF hallConfig = NULL
     THEN /\ lastEvent' = Event("generateRejected", "Hall Not Configured", NULL)
          /\ UNCHANGED seatAssignments
     ELSE IF Len(students) = 0
     THEN /\ lastEvent' = Event("generateRejected", "No Students", NULL)
          /\ UNCHANGED seatAssignments
     ELSE /\ generateAutomaticSeating
          /\ lastEvent' = Event("seatingGenerated", "Seating Generated", NULL)
  /\ UNCHANGED <<students, hallConfig, activeTab, recogVars, pending, clock, toastRerenders>>

\* A click on the Dashboard's Generate Seating button, which is disabled
\* without a hall or without students.
GenerateSeatingClick ==
  /\ activeTab = "dashboard"
  /\ ~(hallConfig = NULL \/ Len(students) = 0)
  /\ handleGenerateSeating

\* A click on Export Arrangement (disabled for an empty list): Index.exportSeatingData
\* downloads a file and changes no state.
ExportClick ==
  /\ activeTab = "dashboard"
  /\ Len(seatAssignments) # 0
  /\ lastEvent' = Event("dataExported", "Data Exported", NULL)
  /\ UNCHANGED <<indexVars, activeTab, recogVars, pending, clock, toastRerenders>>

----------------------------------------------------------------------------
\* FacialRecognition.

\* A render of the mounted FacialRecognition reads streamRef.current to choose
\* between Start Recognition and Scan Student / Stop Camera. React renders it
\* when state of the mounted instance or of Index changed, not when only the
\* ref changed. The useToast hook is outside these sources: whether a toast
\* alone renders the components that call useToast is the build's
\* (toastRerenders). stream: streamRef.current after the handler.
Rendered(stateChanged, toastRaised, stream) ==
  renderedStream' = IF activeTab # "recognition" THEN FALSE
                    ELSE IF stateChanged \/ (toastRaised /\ toastRerenders) THEN stream
                    ELSE renderedStream

\* The synchronous part of simulateRecognition for continuation c (the
\* instance and the closure it runs in): either the early return with a toast,
\* or the state updates before the await and the 2000 ms timer, which joins
\* the continuations in `rest`. cameraToast: a toast was already raised in this
\* step.
simulateRecognitionStart(c, rest, cameraToast, stream) ==
  IF Len(c.students) = 0
  THEN /\ pending' = rest
       /\ UNCHANGED <<isScanning, recognitionStatus>>
       /\ Rendered(FALSE, TRUE, stream)
       /\ lastEvent' = Event("scanRefused", "No Students Registered", NULL)
  ELSE /\ pending' = Append(rest, c)
       /\ IF c.live
          THEN /\ recognitionStatus' = "scanning"
               /\ isScanning' = TRUE
          ELSE UNCHANGED <<isScanning, recognitionStatus>>
       /\ Rendered(c.live /\ (recognitionStatus # "scanning" \/ ~isScanning),
                   cameraToast, stream)
       /\ lastEvent' = Event("scanStarted", IF cameraToast THEN "Camera Error" ELSE "", NULL)

\* A click on Start Recognition (shown while the last render saw no stream,
\* disabled while scanning or without students): handleStartScanning calls
\* startCamera, which awaits getUserMedia.
StartScanningClick ==
  /\ activeTab = "recognition"
  /\ ~renderedStream
  /\ ~(isScanning \/ Len(students) = 0)
  /\ Len(pending) < MaxPending
  /\ pending' = Append(pending,
                       Continuation("camera", TRUE, students, hallConfig, seatAssignments))
  /\ lastEvent' = Event("startScanning", "", NULL)
  /\ UNCHANGED <<indexVars, activeTab, recogVars, clock, toastRerenders>>

\* CameraSettled that asks for the camera again when getUserMedia fails, and
\* starts the recognition only once a stream is there.
CameraSettled_RetriesOnFailure(i, granted) ==
  /\ i \in 1..Len(pending)
  /\ pending[i].kind = "camera"
  /\ IF granted
     THEN LET stream == IF pending[i].live THEN TRUE ELSE streamRef
          IN /\ streamRef' = stream
             /\ simulateRecognitionStart([pending[i] EXCEPT !.kind = "delay"],
                                         RemoveAt(pending, i), FALSE, stream)
     ELSE /\ pending' = Append(RemoveAt(pending, i), pending[i])
          /\ Rendered(FALSE, TRUE, streamRef)
          /\ lastEvent' = Event("cameraRetried", "Camera Error", NULL)
          /\ UNCHANGED <<streamRef, isScanning, recognitionStatus>>
  /\ UNCHANGED <<indexVars, activeTab, lastRecognized, clock, toastRerenders>>

\* getUserMedia settles for continuation i (granted: with a stream): startCamera
\* stores the stream or raises the Camera Error toast, then handleStartScanning
\* goes on to simulateRecognition.
CameraSettled(i, granted) ==
  /\ i \in 1..Len(pending)
  /\ pending[i].kind = "camera"
  /\ LET stream == IF granted /\ pending[i].live THEN TRUE ELSE streamRef
     IN /\ streamRef' = stream
        /\ simulateRecognitionStart([pending[i] EXCEPT !.kind = "delay"],
                                    RemoveAt(pending, i), ~granted, stream)
  /\ UNCHANGED <<indexVars, activeTab, lastRecognized, clock, toastRerenders>>

\* A click on Scan Student (shown while the last render saw a stream, disabled
\* while scanning): simulateRecognition.
ScanStudentClick ==
  /\ activeTab = "recognition"
  /\ renderedStream
  /\ ~isScanning
  /\ Len(pending) < MaxPending
  /\ simulateRecognitionStart(
       Continuation("delay", TRUE, students, hallConfig, seatAssignments),
       pending, FALSE, streamRef)
  /\ UNCHANGED <<indexVars, activeTab, lastRecognized, streamRef, clock, toastRerenders>>

\* Index.handleStudentRecognized as the closure of continuation c sees it.
handleStudentRecognized(c, student) ==
  seatAssignments' = SeatingAfterRecognized(c.configured, c.nextSeat, student,
                                            seatAssignments)

\* RecognitionDone that sets no timer for the reset of the status.
RecognitionDone_NoResetTimer(i, success, k) ==
  /\ i \in 1..Len(pending)
  /\ pending[i].kind = "delay"
  /\ \A j \in 1..(i - 1) : pending[j].kind # "delay"
  /\ k \in 1..Len(pending[i].students)
  /\ LET c == pending[i]
         randomStudent == c.students[k]
     IN IF success
        THEN /\ IF c.live
                THEN /\ lastRecognized' = randomStudent
                     /\ recognitionStatus' = "success"
                ELSE UNCHANGED <<lastRecognized, recognitionStatus>>
             /\ handleStudentRecognized(c, randomStudent)
             /\ lastEvent' = Event("studentRecognized", "Student Recognized",
                                   IF c.configured THEN c.nextSeat ELSE NULL)
        ELSE /\ k = 1
             /\ IF c.live
                THEN recognitionStatus' = "failed"
                ELSE UNCHANGED recognitionStatus
             /\ UNCHANGED <<lastRecognized, seatAssignments>>
             /\ lastEvent' = Event("recognitionFailed", "Recognition Failed", NULL)
  /\ isScanning' = IF pending[i].live THEN FALSE ELSE isScanning
  /\ pending' = RemoveAt(pending, i)
  /\ Rendered(<<isScanning, lastRecognized, recognitionStatus, seatAssignments>>'
                 # <<isScanning, lastRecognized, recognitionStatus, seatAssignments>>,
              TRUE, streamRef)
  /\ UNCHANGED <<students, hallConfig, activeTab, streamRef, clock, toastRerenders>>

\* The 2000 ms timer of continuation i fires (timers of one delay fire in the
\* order they were set): the rest of simulateRecognition. success is
\* Math.random() > 0.3, k the index Math.floor(Math.random() * students.length) + 1.
RecognitionDone(i, success, k) ==
  /\ i \in 1..Len(pending)
  /\ pending[i].kind = "delay"
  /\ \A j \in 1..(i - 1) : pending[j].kind # "delay"
  /\ k \in 1..Len(pending[i].students)
  /\ LET c == pending[i]
         randomStudent == c.students[k]
     IN IF success
        THEN /\ IF c.live
                THEN /\ lastRecognized' = randomStudent
                     /\ recognitionStatus' = "success"
                ELSE UNCHANGED <<lastRecognized, recognitionStatus>>
             /\ handleStudentRecognized(c, randomStudent)
             /\ lastEvent' = Event("studentRecognized", "Student Recognized",
                                   IF c.configured THEN c.nextSeat ELSE NULL)
        ELSE /\ k = 1
             /\ IF c.live
                THEN recognitionStatus' = "failed"
                ELSE UNCHANGED recognitionStatus
             /\ UNCHANGED <<lastRecognized, seatAssignments>>
             /\ lastEvent' = Event("recognitionFailed", "Recognition Failed", NULL)
  /\ isScanning' = IF pending[i].live THEN FALSE ELSE isScanning
  /\ pending' = Append(RemoveAt(pending, i), ResetTimer(pending[i].live))
  /\ Rendered(<<isScanning, lastRecognized, recognitionStatus, seatAssignments>>'
                 # <<isScanning, lastRecognized, recognitionStatus, seatAssignments>>,
              TRUE, streamRef)
  /\ UNCHANGED <<students, hallConfig, activeTab, streamRef, clock, toastRerenders>>

\* The 3000 ms timer of continuation i fires; every timer set before it has
\* fired by then.
StatusReset(i) ==
  /\ i \in 1..Len(pending)
  /\ pending[i].kind = "reset"
  /\ \A j \in 1..(i - 1) : pending[j].kind = "camera"
  /\ IF pending[i].live
     THEN /\ recognitionStatus' = "idle"
          /\ lastRecognized' = NULL
          /\ Rendered(recognitionStatus # "idle" \/ lastRecognized # NULL, FALSE, streamRef)
     ELSE UNCHANGED <<recognitionStatus, lastRecognized, renderedStream>>
  /\ pending' = RemoveAt(pending, i)
  /\ lastEvent' = Event("statusReset", "", NULL)
  /\ UNCHANGED <<indexVars, activeTab, isScanning, streamRef, clock, toastRerenders>>

\* StopScanningClick that also clears the timers of the scans in flight.
StopScanningClick_CancelsPending ==
  /\ activeTab = "recognition"
  /\ renderedStream
  /\ streamRef' = FALSE
  /\ isScanning' = FALSE
  /\ recognitionStatus' = "idle"
  /\ Rendered(isScanning \/ recognitionStatus # "idle", FALSE, FALSE)
  /\ pending' = SelectSeq(pending, LAMBDA c : c.kind # "delay")
  /\ lastEvent' = Event("stopScanning", "", NULL)
  /\ UNCHANGED <<indexVars, activeTab, lastRecognized, clock, toastRerenders>>

\* A click on Stop Camera (shown while the last render saw a stream):
\* handleStopScanning.
StopScanningClick ==
  /\ activeTab = "recognition"
  /\ renderedStream
  /\ streamRef' = FALSE
  /\ isScanning' = FALSE
  /\ recognitionStatus' = "idle"
  /\ Rendered(isScanning \/ recognitionStatus # "idle", FALSE, FALSE)
  /\ lastEvent' = Event("stopScanning", "", NULL)
  /\ UNCHANGED <<indexVars, activeTab, lastRecognized, pending, clock, toastRerenders>>

----------------------------------------------------------------------------
\* What the forms may hold at a submit.
FormNames == {"", "Hall A"}
FormRows == 0..MaxRows
FormSeats == 0..MaxSeats
FormTexts == {"", "x"}
FormPhotos == {NULL, [dataUrl |-> "data:image"]}

\* A submit of the registration form; Date.now() never runs backwards.
Register ==
  \E name \in FormTexts, email \in FormTexts, rollNumber \in FormTexts,
     photo \in FormPhotos, t \in {clock, clock + 1} :
    RegistrationSubmit(name, email, rollNumber, photo, t)

Next ==
  \/ \E t \in Tabs : SwitchTab(t)
  \/ Register
  \/ \E name \in FormNames, rows \in FormRows, seatsPerRow \in FormSeats :
       HallSubmit(name, rows, seatsPerRow)
  \/ GenerateSeatingClick
  \/ ExportClick
  \/ StartScanningClick
  \/ \E i \in 1..MaxPending, granted \in BOOLEAN : CameraSettled(i, granted)
  \/ ScanStudentClick
  \/ \E i \in 1..MaxPending, success \in BOOLEAN, k \in 1..MaxStudents :
       RecognitionDone(i, success, k)
  \/ \E i \in 1..MaxPending : StatusReset(i)
  \/ StopScanningClick

Spec == Init /\ [][Next]_vars

----------------------------------------------------------------------------
\* The Index functions and the handlers applied one by one to given states.

RECURSIVE SeqsUpTo(_, _)
\* The sequences over S of length at most n.
SeqsUpTo(S, n) ==
  IF n = 0 THEN {<<>>}
  ELSE LET shorter == SeqsUpTo(S, n - 1)
       IN shorter \cup {Append(q, e) : q \in shorter, e \in S}

\* The n-th student registered, with all fields filled in.
UnitStudent(n) == Student(n, "x", "x", "x", [dataUrl |-> "data:image"])

RECURSIVE StudentPrefix(_)
\* A student list of n distinct students.
StudentPrefix(n) ==
  IF n = 0 THEN <<>> ELSE Append(StudentPrefix(n - 1), UnitStudent(n))

UnitHalls ==
  {HallData("Hall A", r, c) : r \in 1..UnitRows, c \in 1..UnitSeats}

\* SeatAssignment values: student is Student | null.
UnitEntries ==
  {[row |-> r, seat |-> c, student |-> st] :
     r \in 1..UnitRows, c \in 1..UnitSeats, st \in {NULL, UnitStudent(1)}}

\* An Index with some student list, hall and assignment list, shown on the
\* dashboard or the hall tab, FacialRecognition unmounted.
InitIndexOps ==
  /\ students \in {StudentPrefix(n) : n \in 0..UnitStudents}
  /\ hallConfig \in UnitHalls \cup {NULL}
  /\ seatAssignments \in SeqsUpTo(UnitEntries, UnitPrior)
  /\ activeTab \in {"dashboard", "hall"}
  /\ isScanning = FALSE
  /\ lastRecognized = NULL
  /\ recognitionStatus = "idle"
  /\ streamRef = FALSE
  /\ renderedStream = FALSE
  /\ pending = <<>>
  /\ clock = UnitStudents
  /\ toastRerenders \in BOOLEAN
  /\ lastEvent = [op |-> "init", toast |-> "", preLen |-> 0, seat |-> NULL]

\* Index.generateAutomaticSeating called as a function of the Index state.
AllocatorCall ==
  /\ generateAutomaticSeating
  /\ lastEvent' = Event("generateAutomaticSeating", "", NULL)
  /\ UNCHANGED <<students, hallConfig, activeTab, recogVars, pending, clock, toastRerenders>>

\* Dashboard.handleGenerateSeating called with the Index state as its props.
GenerateHandlerCall == handleGenerateSeating

NextIndexOps ==
  \/ AllocatorCall
  \/ GenerateHandlerCall
  \/ GenerateSeatingClick
  \/ \E name \in FormNames, rows \in 0..UnitRows, seatsPerRow \in 0..UnitSeats :
       HallSubmit(name, rows, seatsPerRow)

SpecIndexOps == InitIndexOps /\ [][NextIndexOps]_vars

\* A FacialRecognition that has just started a scan, over an Index with some
\* hall and assignment list. The closure of the scan holds the hall and the
\* list of the render its handler was called from (for handleStartScanning,
\* the render of the click, before the camera was granted). While the
\* component stays mounted the hall cannot change and the list only grows by
\* recognitions, so the closure holds the current hall and any prefix of the
\* current list.
InitRecognize ==
  /\ students = StudentPrefix(1)
  /\ hallConfig \in UnitHalls \cup {NULL}
  /\ seatAssignments \in SeqsUpTo(UnitEntries, UnitList)
  /\ activeTab = "recognition"
  /\ isScanning = TRUE
  /\ lastRecognized = NULL
  /\ recognitionStatus = "scanning"
  /\ streamRef = TRUE
  /\ renderedStream = TRUE
  /\ \E n \in 0..Len(seatAssignments) :
       pending = <<Continuation("delay", TRUE, students, hallConfig,
                                SubSeq(seatAssignments, 1, n))>>
  /\ clock = 1
  /\ toastRerenders \in BOOLEAN
  /\ lastEvent = [op |-> "scanStarted", toast |-> "",
                  preLen |-> Len(seatAssignments), seat |-> NULL]

\* Index.findNextAvailableSeat called as a function of the Index state.
FinderCall ==
  /\ lastEvent' = Event("findNextAvailableSeat", "",
                        findNextAvailableSeat(hallConfig, seatAssignments))
  /\ UNCHANGED <<indexVars, activeTab, recogVars, pending, clock, toastRerenders>>

NextRecognize ==
  \/ FinderCall
  \/ \E i \in 1..MaxPending, success \in BOOLEAN, k \in 1..MaxStudents :
       RecognitionDone(i, success, k)
  \/ \E i \in 1..MaxPending : StatusReset(i)

SpecRecognize == InitRecognize /\ [][NextRecognize]_vars

\* A StudentRegistration form about to be submitted, over an Index with some
\* student list and hall, the students seated by a bulk generation.
InitRegister ==
  /\ students \in {StudentPrefix(n) : n \in 0..UnitStudents}
  /\ hallConfig \in UnitHalls \cup {NULL}
  /\ seatAssignments = IF hallConfig = NULL THEN <<>>
                       ELSE NewAssignments(hallConfig, students)
  /\ activeTab = "students"
  /\ isScanning = FALSE
  /\ lastRecognized = NULL
  /\ recognitionStatus = "idle"
  /\ streamRef = FALSE
  /\ renderedStream = FALSE
  /\ pending = <<>>
  /\ clock = UnitStudents
  /\ toastRerenders \in BOOLEAN
  /\ lastEvent = [op |-> "init", toast |-> "", preLen |-> 0, seat |-> NULL]

NextRegister == Register

SpecRegister == InitRegister /\ [][NextRegister]_vars

\* The scan of InitRecognize with what the operator can do on the recognition
\* tab while it runs: stop the camera, leave the tab, come back.
NextStop ==
  \/ StopScanningClick
  \/ \E t \in Tabs : SwitchTab(t)
  \/ \E i \in 1..MaxPending, success \in BOOLEAN, k \in 1..MaxStudents :
       RecognitionDone(i, success, k)
  \/ \E i \in 1..MaxPending : StatusReset(i)

SpecStop == InitRecognize /\ [][NextStop]_vars

\* A FacialRecognition on which Start Recognition has just been clicked, over
\* an Index with some hall and assignment list: getUserMedia is pending, and
\* the closure of the click holds the current hall and list.
InitCamera ==
  /\ students = StudentPrefix(1)
  /\ hallConfig \in UnitHalls \cup {NULL}
  /\ seatAssignments \in SeqsUpTo(UnitEntries, UnitList)
  /\ activeTab = "recognition"
  /\ isScanning = FALSE
  /\ lastRecognized = NULL
  /\ recognitionStatus = "idle"
  /\ streamRef = FALSE
  /\ renderedStream = FALSE
  /\ pending = <<Continuation("camera", TRUE, students, hallConfig, seatAssignments)>>
  /\ clock = 1
  /\ toastRerenders \in BOOLEAN
  /\ lastEvent = [op |-> "startScanning", toast |-> "",
                  preLen |-> Len(seatAssignments), seat |-> NULL]

NextCamera ==
  \/ \E i \in 1..MaxPending, granted \in BOOLEAN : CameraSettled(i, granted)
  \/ \E i \in 1..MaxPending, success \in BOOLEAN, k \in 1..MaxStudents :
       RecognitionDone(i, success, k)
  \/ \E i \in 1..MaxPending : StatusReset(i)

SpecCamera == InitCamera /\ [][NextCamera]_vars

\* A FacialRecognition at rest, with or without a camera stream, over an
\* Index with one student, no hall or a hall of one seat, and the student
\* seated by a bulk generation or not.
InitScanReady ==
  /\ students = StudentPrefix(1)
  /\ hallConfig \in {NULL, HallData("Hall A", 1, 1)}
  /\ seatAssignments \in {<<>>} \cup (IF hallConfig = NULL THEN {}
                                       ELSE {NewAssignments(hallConfig, students)})
  /\ activeTab = "recognition"
  /\ isScanning = FALSE
  /\ lastRecognized = NULL
  /\ recognitionStatus = "idle"
  /\ streamRef \in BOOLEAN
  /\ renderedStream = streamRef
  /\ pending = <<>>
  /\ clock = 1
  /\ toastRerenders \in BOOLEAN
  /\ lastEvent = [op |-> "init", toast |-> "", preLen |-> 0, seat |-> NULL]

\* Every handler of the page applied to the states above: an Index on the
\* dashboard, the hall tab or the students tab, or a FacialRecognition at rest.
InitHandlers ==
  \/ InitIndexOps
  \/ InitRegister
  \/ InitScanReady

NextHandlers ==
  \/ Register
  \/ \E name \in FormNames, rows \in 0..UnitRows, seatsPerRow \in 0..UnitSeats :
       HallSubmit(name, rows, seatsPerRow)
  \/ GenerateSeatingClick
  \/ ExportClick
  \/ StartScanningClick
  \/ \E i \in 1..MaxPending, granted \in BOOLEAN : CameraSettled(i, granted)
  \/ ScanStudentClick
  \/ \E i \in 1..MaxPending, success \in BOOLEAN, k \in 1..MaxStudents :
       RecognitionDone(i, success, k)
  \/ \E i \in 1..MaxPending : StatusReset(i)
  \/ StopScanningClick

SpecHandlers == InitHandlers /\ [][NextHandlers]_vars

\* A mounted FacialRecognition that is not scanning, over an Index with no
\* student or one, no hall or a hall of one seat, and the student seated by a
\* bulk generation or not. With a student, the camera may be on, and an earlier scan may have
\* completed less than 3 s ago: its outcome is still shown and its reset timer
\* is still pending.
InitScanLive ==
  /\ students \in {StudentPrefix(n) : n \in 0..1}
  /\ hallConfig \in {NULL, HallData("Hall A", 1, 1)}
  /\ seatAssignments \in {<<>>} \cup (IF hallConfig = NULL THEN {}
                                       ELSE {NewAssignments(hallConfig, students)})
  /\ activeTab = "recognition"
  /\ isScanning = FALSE
  /\ streamRef \in (IF Len(students) = 0 THEN {FALSE} ELSE BOOLEAN)
  /\ renderedStream = streamRef
  /\ \/ /\ recognitionStatus = "idle"
        /\ lastRecognized = NULL
        /\ pending = <<>>
     \/ /\ Len(students) > 0
        /\ \/ recognitionStatus = "success" /\ lastRecognized = students[1]
           \/ recognitionStatus = "failed" /\ lastRecognized = NULL
        /\ pending = <<ResetTimer(TRUE)>>
  /\ clock = 1
  /\ toastRerenders \in BOOLEAN
  /\ lastEvent = [op |-> "init", toast |-> "", preLen |-> 0, seat |-> NULL]

\* simulateRecognition is called in the closure of the current render.
ScanRequest ==
  /\ activeTab = "recognition"
  /\ Len(pending) < MaxPending
  /\ simulateRecognitionStart(
       Continuation("delay", TRUE, students, hallConfig, seatAssignments),
       pending, FALSE, streamRef)
  /\ UNCHANGED <<indexVars, activeTab, lastRecognized, streamRef, clock, toastRerenders>>

\* The 2000 ms timer of some scan fires.
DelayFires ==
  \E i \in 1..MaxPending, success \in BOOLEAN, k \in 1..MaxStudents :
    RecognitionDone(i, success, k)

\* The 3000 ms timer of some scan fires.
ResetFires == \E i \in 1..MaxPending : StatusReset(i)

NextScanLive ==
  \/ ScanRequest
  \/ StartScanningClick
  \/ \E i \in 1..MaxPending, granted \in BOOLEAN : CameraSettled(i, granted)
  \/ StopScanningClick
  \/ \E t \in Tabs : SwitchTab(t)
  \/ DelayFires
  \/ ResetFires

\* Scans requested at any time, directly or through Start Recognition, with
\* Stop Camera and tab switches (which unmount the component) at any time; a
\* timer that was set fires. Nothing is assumed of the operator or of the
\* camera request.
SpecScanLive ==
  /\ InitScanLive
  /\ [][NextScanLive]_vars
  /\ WF_vars(DelayFires)
  /\ WF_vars(ResetFires)

----------------------------------------------------------------------------
\* Properties.

\* The i-th seat (1-based) of a hall with seatsPerRow seats per row, in
\* row-major order.
RowMajorSeat(i, seatsPerRow) ==
  [row |-> ((i - 1) \div seatsPerRow) + 1, seat |-> ((i - 1) % seatsPerRow) + 1]

\* The coordinates of a hall.
HallSeats(hall) ==
  {[row |-> r, seat |-> c] : r \in 1..hall.rows, c \in 1..hall.seatsPerRow}

SeatOf(entry) == [row |-> entry.row, seat |-> entry.seat]

\* p comes before q in row-major order, or is q.
RowMajorLeq(p, q) == p.row < q.row \/ (p.row = q.row /\ p.seat <= q.seat)

\* The last handler was a bulk generation over a configured hall.
Generated ==
  /\ lastEvent.op \in {"generateAutomaticSeating", "seatingGenerated"}
  /\ hallConfig # NULL

\* seatAssignments as it was before the last handler, which at most appended to it.
ListBefore == SubSeq(seatAssignments, 1, lastEvent.preLen)

\* C1: the assignment list never holds two entries for one (row, seat) pair.
C1_OneEntryPerSeat ==
  \A i, j \in 1..Len(seatAssignments) :
    i # j => SeatOf(seatAssignments[i]) # SeatOf(seatAssignments[j])

\* C2: with N <= R*C students, generateAutomaticSeating yields exactly N
\* entries, the i-th holding the i-th student at the i-th seat in row-major
\* order, all at distinct seats.
C2_RowMajorWithinCapacity ==
  (Generated /\ Len(students) <= hallConfig.rows * hallConfig.seatsPerRow) =>
    /\ Len(seatAssignments) = Len(students)
    /\ \A i \in 1..Len(seatAssignments) :
         /\ seatAssignments[i].student = students[i]
         /\ seatAssignments[i].row = ((i - 1) \div hallConfig.seatsPerRow) + 1
         /\ seatAssignments[i].seat = ((i - 1) % hallConfig.seatsPerRow) + 1
    /\ \A i, j \in 1..Len(seatAssignments) :
         i # j => SeatOf(seatAssignments[i]) # SeatOf(seatAssignments[j])

\* C2 witness: three students generated into a 2 x 2 hall, the third in row 2.
C2_Witness ==
  /\ Generated
  /\ Len(students) = 3
  /\ hallConfig.rows = 2 /\ hallConfig.seatsPerRow = 2
  /\ Len(seatAssignments) = 3
  /\ seatAssignments[3].row = 2

\* C3: with N > R*C students, generateAutomaticSeating yields exactly R*C
\* entries holding the first R*C students in row-major seats; no later student
\* is in any entry, and the generation raises no error notification.
C3_TruncatesAtCapacity ==
  (Generated /\ Len(students) > hallConfig.rows * hallConfig.seatsPerRow) =>
    /\ Len(seatAssignments) = hallConfig.rows * hallConfig.seatsPerRow
    /\ \A i \in 1..Len(seatAssignments) :
         /\ seatAssignments[i].student = students[i]
         /\ SeatOf(seatAssignments[i]) = RowMajorSeat(i, hallConfig.seatsPerRow)
    /\ \A k \in (hallConfig.rows * hallConfig.seatsPerRow + 1)..Len(students) :
         \A i \in 1..Len(seatAssignments) : seatAssignments[i].student # students[k]
    /\ lastEvent.toast \in {"", "Seating Generated"}

\* C3 witness: three students generated into a 1 x 2 hall.
C3_Witness ==
  /\ Generated
  /\ Len(students) = 3
  /\ hallConfig.rows = 1 /\ hallConfig.seatsPerRow = 2
  /\ Len(seatAssignments) = 2

\* C4 as stated: with N < R*C students the generated list has an entry for
\* every seat of the hall, the seats after the N-th with no student.
C4_ListsEverySeat ==
  (Generated /\ Len(students) < hallConfig.rows * hallConfig.seatsPerRow) =>
    /\ Len(seatAssignments) = hallConfig.rows * hallConfig.seatsPerRow
    /\ \A i \in (Len(students) + 1)..Len(seatAssignments) :
         /\ seatAssignments[i].student = NULL
         /\ SeatOf(seatAssignments[i]) = RowMajorSeat(i, hallConfig.seatsPerRow)

\* C4 amended: with N < R*C students the generated list has exactly N
\* entries, each holding a student, and no entry at all for the remaining
\* seats; for R = 2, C = 2 and students [A, B, C] it is (1,1,A), (1,2,B), (2,1,C).
C4_RemainingSeatsAbsent ==
  (Generated /\ Len(students) < hallConfig.rows * hallConfig.seatsPerRow) =>
    /\ Len(seatAssignments) = Len(students)
    /\ \A i \in 1..Len(seatAssignments) : seatAssignments[i].student # NULL
    /\ \A p \in HallSeats(hallConfig) :
         (\E i \in 1..Len(seatAssignments) : SeatOf(seatAssignments[i]) = p)
           <=> (\E i \in 1..Len(students) : RowMajorSeat(i, hallConfig.seatsPerRow) = p)
    /\ (hallConfig.rows = 2 /\ hallConfig.seatsPerRow = 2 /\ Len(students) = 3) =>
         seatAssignments = << [row |-> 1, seat |-> 1, student |-> students[1]],
                              [row |-> 1, seat |-> 2, student |-> students[2]],
                              [row |-> 2, seat |-> 1, student |-> students[3]] >>

\* C4 witness: the example, R = 2, C = 2 and three students, with no entry for (2,2).
C4_Witness ==
  /\ Generated
  /\ hallConfig.rows = 2 /\ hallConfig.seatsPerRow = 2
  /\ Len(students) = 3
  /\ \A i \in 1..Len(seatAssignments) :
       SeatOf(seatAssignments[i]) # [row |-> 2, seat |-> 2]

\* A 2 x 2 hall is configured and no student is registered.
EmptyTwoByTwo(hall, studs) ==
  /\ hall # NULL
  /\ hall.rows = 2 /\ hall.seatsPerRow = 2
  /\ Len(studs) = 0

\* C5 as stated: generating for a 2 x 2 hall and no students leaves a list of
\* all four seats, each with no student.
C5_FourEmptySeats ==
  (/\ EmptyTwoByTwo(hallConfig, students)
   /\ lastEvent.op \in {"generateAutomaticSeating", "seatingGenerated", "generateRejected"}) =>
    /\ Len(seatAssignments) = 4
    /\ \A i \in 1..4 :
         /\ seatAssignments[i].student = NULL
         /\ SeatOf(seatAssignments[i]) = RowMajorSeat(i, 2)

\* C5 amended: for a 2 x 2 hall and no students the Dashboard's Generate
\* Seating handler raises the "No Students" notification and leaves the
\* assignment list as it was, and the bulk allocator called by itself yields
\* the empty list.
C5_NoStudentsNoSeats ==
  [][ EmptyTwoByTwo(hallConfig, students) =>
        /\ lastEvent'.op \in {"seatingGenerated", "generateRejected"} =>
             /\ lastEvent'.op = "generateRejected"
             /\ lastEvent'.toast = "No Students"
             /\ seatAssignments' = seatAssignments
        /\ lastEvent'.op = "generateAutomaticSeating" => seatAssignments' = <<>>
    ]_vars

\* C5 witness: the handler has refused to generate for a 2 x 2 hall without
\* students, over a list that held an entry.
C5_Witness ==
  /\ EmptyTwoByTwo(hallConfig, students)
  /\ lastEvent.op = "generateRejected"
  /\ lastEvent.toast = "No Students"
  /\ lastEvent.preLen = 1

\* The seats of the hall for which the list has no entry carrying a student.
FreeSeats(hall, assignments) ==
  {p \in HallSeats(hall) :
     ~\E i \in 1..Len(assignments) :
        SeatOf(assignments[i]) = p /\ assignments[i].student # NULL}

\* C6: over a hall R x C, findNextAvailableSeat returns the row-major-least
\* seat for which the list has no entry carrying a student, and returns null
\* exactly when no such seat is left; a list missing only (1,1) gives (1,1).
C6_FirstFreeSeat ==
  (lastEvent.op = "findNextAvailableSeat" /\ hallConfig # NULL) =>
    LET free == FreeSeats(hallConfig, seatAssignments)
    IN /\ (lastEvent.seat = NULL) <=> (free = {})
       /\ lastEvent.seat # NULL =>
            /\ lastEvent.seat \in free
            /\ \A p \in free : RowMajorLeq(lastEvent.seat, p)
       /\ free = {[row |-> 1, seat |-> 1]} => lastEvent.seat = [row |-> 1, seat |-> 1]

\* C6 witness: the finder has skipped an entry without a student at (1,1) of
\* a hall with two seats per row, whose (1,2) is taken, and returned (1,1).
C6_Witness ==
  /\ lastEvent.op = "findNextAvailableSeat"
  /\ hallConfig # NULL
  /\ hallConfig.seatsPerRow = 2
  /\ Len(seatAssignments) = 2
  /\ seatAssignments[1] = [row |-> 1, seat |-> 1, student |-> NULL]
  /\ SeatOf(seatAssignments[2]) = [row |-> 1, seat |-> 2]
  /\ seatAssignments[2].student # NULL
  /\ lastEvent.seat = [row |-> 1, seat |-> 1]

\* C6 second case, a full hall: every seat of a 1 x 2 hall carries a student
\* and the finder has returned null.
C6_FullHall ==
  /\ lastEvent.op = "findNextAvailableSeat"
  /\ hallConfig # NULL
  /\ hallConfig.rows = 1 /\ hallConfig.seatsPerRow = 2
  /\ FreeSeats(hallConfig, seatAssignments) = {}
  /\ lastEvent.seat = NULL

\* C7: right after an accepted hall-configuration submission the assignment
\* list is empty.
C7_ReconfigurationEmptiesSeating ==
  lastEvent.op = "hallConfigured" => seatAssignments = <<>>

\* C7 witness: a hall was configured over a list that held an entry.
C7_Witness ==
  /\ lastEvent.op = "hallConfigured"
  /\ lastEvent.preLen > 0
  /\ hallConfig # NULL

\* C8: a recognition places its student at the seat findNextAvailableSeat gives
\* for the hall configuration and the assignment list that are current when
\* its entry is appended.
C8_RecognitionSeesCurrentState ==
  lastEvent.op = "studentRecognized" =>
    lastEvent.seat = findNextAvailableSeat(hallConfig, ListBefore)

\* C9: when handleStudentRecognized gets no seat (full hall, or no hall in its
\* closure) the student list, the hall configuration and the assignment list
\* stay as they are, the notification is the one of a recognition, and the
\* component does not enter the failed state.
C9_NoSeatIsSilentNoOp ==
  [][ (lastEvent'.op = "studentRecognized" /\ lastEvent'.seat = NULL) =>
        /\ UNCHANGED <<students, hallConfig, seatAssignments>>
        /\ lastEvent'.toast = "Student Recognized"
        /\ recognitionStatus' = "failed" => recognitionStatus = "failed"
    ]_vars

\* C9 witness: a student was recognized over a configured hall all of whose
\* seats carry a student, and the list kept its length.
C9_Witness ==
  /\ lastEvent.op = "studentRecognized"
  /\ lastEvent.seat = NULL
  /\ hallConfig # NULL
  /\ FreeSeats(hallConfig, seatAssignments) = {}
  /\ Len(seatAssignments) = lastEvent.preLen
  /\ recognitionStatus = "success"

\* The list a bulk generation is to leave, by position.
RowMajorSeating(hall, studs) ==
  LET n == Min(Len(studs), hall.rows * hall.seatsPerRow)
  IN SubSeq([i \in 1..Len(studs) |->
               [row |-> RowMajorSeat(i, hall.seatsPerRow).row,
                seat |-> RowMajorSeat(i, hall.seatsPerRow).seat,
                student |-> studs[i]]], 1, n)

\* C10: a bulk generation over a configured hall leaves a list fixed by the
\* student list and the hall alone: none of the prior list survives, and a
\* second generation in a row leaves the list as the first did.
C10_GenerationIgnoresPriorList ==
  [][ (/\ lastEvent'.op \in {"generateAutomaticSeating", "seatingGenerated"}
       /\ hallConfig # NULL) =>
        /\ seatAssignments' = RowMajorSeating(hallConfig, students)
        /\ lastEvent.op \in {"generateAutomaticSeating", "seatingGenerated"} =>
             seatAssignments' = seatAssignments
    ]_vars

\* C10 witness: a generation for one student has replaced a list that held
\* one entry by the list with that student at (1,1).
C10_Witness ==
  /\ Generated
  /\ lastEvent.preLen = 1
  /\ Len(students) = 1
  /\ Len(seatAssignments) = 1
  /\ SeatOf(seatAssignments[1]) = [row |-> 1, seat |-> 1]

\* A hall configuration the form may store.
ValidHall(hall) ==
  /\ hall.name # ""
  /\ hall.rows >= 1
  /\ hall.seatsPerRow >= 1

\* C11: a hall submission that is refused raises the "Invalid Configuration"
\* notification and leaves the hall configuration, the assignment list and the
\* student list as they were; an accepted one stores the hall it was given;
\* so every stored hall has a name, at least one row and at least one seat per row.
C11_InvalidHallRefused ==
  [][ /\ lastEvent'.op = "hallRejected" =>
             /\ lastEvent'.toast = "Invalid Configuration"
             /\ UNCHANGED <<hallConfig, seatAssignments, students>>
      /\ lastEvent'.op = "hallConfigured" => lastEvent'.toast = "Hall Configured"
      /\ hallConfig' # NULL => ValidHall(hallConfig')
    ]_vars

\* C11 witness: a submission was refused over a stored hall and a list that
\* held an entry, both still there.
C11_Witness ==
  /\ lastEvent.op = "hallRejected"
  /\ hallConfig # NULL
  /\ lastEvent.preLen = 1
  /\ Len(seatAssignments) = 1

\* The last handler was a submit of the registration form.
RegistrationSubmitted(e) == e.op \in {"registrationRejected", "studentRegistered"}

\* C12 as stated: a registration is refused exactly when the name, the email
\* or the roll number is missing; the photo is optional.
C12_PhotoOptional ==
  RegistrationSubmitted(lastEvent) =>
    (lastEvent.op = "registrationRejected"
       <=> (\/ lastEvent.form.name = ""
            \/ lastEvent.form.email = ""
            \/ lastEvent.form.rollNumber = ""))

\* C12 amended: a registration is refused, with the "Missing Information"
\* notification and the student list unchanged, exactly when the name, the
\* email, the roll number or the photo is missing; otherwise the student made
\* of the four form values is appended.
C12_PhotoRequired ==
  [][ RegistrationSubmitted(lastEvent') =>
        LET f == lastEvent'.form
        IN /\ lastEvent'.op = "registrationRejected"
                <=> (f.name = "" \/ f.email = "" \/ f.rollNumber = "" \/ f.photo = NULL)
           /\ lastEvent'.op = "registrationRejected" =>
                /\ lastEvent'.toast = "Missing Information"
                /\ UNCHANGED students
           /\ lastEvent'.op = "studentRegistered" =>
                /\ lastEvent'.toast = "Student Registered"
                /\ Len(students') = Len(students) + 1
                /\ SubSeq(students', 1, Len(students)) = students
                /\ LET st == students'[Len(students')]
                   IN /\ st.name = f.name /\ st.email = f.email
                      /\ st.rollNumber = f.rollNumber /\ st.photo = f.photo
    ]_vars

\* C12 witness: a form with name, email and roll number but no photo was
\* refused.
C12_Witness ==
  /\ lastEvent.op = "registrationRejected"
  /\ lastEvent.form.name # ""
  /\ lastEvent.form.email # ""
  /\ lastEvent.form.rollNumber # ""
  /\ lastEvent.form.photo = NULL

\* C13: no two entries of the student list have the same id.
C13_UniqueStudentIds ==
  \A i, j \in 1..Len(students) : i # j => students[i].id # students[j].id

\* C14: an accepted registration appends exactly one student at the end of the
\* student list and every other step leaves the list as it is, so the list of
\* a state is a prefix of the list of the next.
C14_StudentsAppendOnly ==
  [][ /\ lastEvent'.op = "studentRegistered" =>
             /\ Len(students') = Len(students) + 1
             /\ SubSeq(students', 1, Len(students)) = students
      /\ lastEvent'.op # "studentRegistered" => students' = students
    ]_vars

\* C14 witness: a second student was registered after a hall was configured
\* and a seat assigned, the first student still first.
C14_Witness ==
  /\ lastEvent.op = "studentRegistered"
  /\ Len(students) = 2
  /\ hallConfig # NULL
  /\ Len(seatAssignments) > 0
  /\ seatAssignments[1].student = students[1]

\* The scans waiting for their 2000 ms timer, as what their closures hold.
PendingScans(seq) ==
  {[students |-> seq[i].students, configured |-> seq[i].configured,
    nextSeat |-> seq[i].nextSeat] : i \in {j \in 1..Len(seq) : seq[j].kind = "delay"}}

\* C15: a scan that waits for its delay goes on waiting over every step that
\* is not a scan's completion (Stop Camera and leaving the tab included), its
\* completion stays possible in every such state, and a completion that
\* succeeds and has a seat appends the entry of the recognized student.
C15_ScanNeverCancelled ==
  /\ [](PendingScans(pending) # {} =>
          ENABLED (\E i \in 1..MaxPending, k \in 1..MaxStudents :
                     RecognitionDone(i, TRUE, k)))
  /\ [][ /\ lastEvent'.op \notin {"studentRecognized", "recognitionFailed"} =>
                PendingScans(pending) \subseteq PendingScans(pending')
         /\ (lastEvent'.op = "studentRecognized" /\ lastEvent'.seat # NULL) =>
                \E k \in 1..Len(students) :
                  seatAssignments' =
                    Append(seatAssignments, [row |-> lastEvent'.seat.row,
                                             seat |-> lastEvent'.seat.seat,
                                             student |-> students[k]])
       ]_vars

\* C15 witness: Stop Camera was pressed during the delay of a scan (no stream,
\* the component still mounted) and the scan has gone on to recognize a
\* student and append the entry.
C15_Witness ==
  /\ lastEvent.op = "studentRecognized"
  /\ activeTab = "recognition"
  /\ ~streamRef
  /\ recognitionStatus = "success"
  /\ Len(seatAssignments) = lastEvent.preLen + 1

\* C16: a stored hall configuration has totalSeats = rows * seatsPerRow, so
\* the capacity the Dashboard shows is the capacity the seating chart computes.
C16_TotalSeatsIsProduct ==
  hallConfig # NULL =>
    /\ hallConfig.totalSeats = hallConfig.rows * hallConfig.seatsPerRow
    /\ DashboardTotalSeats(hallConfig)
         = ChartTotalSeats(hallConfig.rows, hallConfig.seatsPerRow)

\* C16 witness: a 2 x 2 hall was stored by a submit, with totalSeats 4.
C16_Witness ==
  /\ lastEvent.op = "hallConfigured"
  /\ hallConfig.rows = 2 /\ hallConfig.seatsPerRow = 2
  /\ hallConfig.totalSeats = 4

\* C17: with a hall R x C configured, every entry of the assignment list has
\* its row in 1..R and its seat in 1..C.
C17_EntriesInsideHall ==
  hallConfig # NULL =>
    \A i \in 1..Len(seatAssignments) : SeatOf(seatAssignments[i]) \in HallSeats(hallConfig)

\* The positions of seq whose element (for a list of entries: whose student) is v.
PositionsOf(v, seq) == {i \in 1..Len(seq) : seq[i] = v}

\* C18: no student is in more than one entry of the assignment list: a
\* student record is in no more entries than it has registrations.
C18_OneSeatPerStudent ==
  \A k \in 1..Len(students) :
    Cardinality({i \in 1..Len(seatAssignments) : seatAssignments[i].student = students[k]})
      <= Cardinality(PositionsOf(students[k], students))

\* The seats of the list's entries that carry a student.
OccupiedSeats(assignments) ==
  {SeatOf(assignments[i]) : i \in {j \in 1..Len(assignments) : assignments[j].student # NULL}}

\* C19: the occupied seats are the first n seats of the current hall in
\* row-major order, n being their number.
C19_OccupiedRowMajorPrefix ==
  hallConfig # NULL =>
    LET occupied == OccupiedSeats(seatAssignments)
    IN occupied = {RowMajorSeat(i, hallConfig.seatsPerRow) : i \in 1..Cardinality(occupied)}

\* The getUserMedia requests in flight.
CameraRequests(seq) == {i \in 1..Len(seq) : seq[i].kind = "camera"}

\* C20: the step in which getUserMedia fails raises the "Camera Error"
\* notification, stores no stream, makes no new camera request and starts the
\* simulated recognition (one more scan waits for its delay); and a
\* recognition that succeeds with a seat appends the entry of a registered
\* student although no stream is there.
C20_CameraFailureStillScans ==
  [][ /\ lastEvent'.toast = "Camera Error" =>
             /\ lastEvent'.op = "scanStarted"
             /\ streamRef' = streamRef
             /\ Cardinality(CameraRequests(pending'))
                  = Cardinality(CameraRequests(pending)) - 1
             /\ Len(pending') = Len(pending)
             /\ pending'[Len(pending')].kind = "delay"
      /\ (lastEvent'.op = "studentRecognized" /\ lastEvent'.seat # NULL /\ ~streamRef) =>
             /\ ~streamRef'
             /\ Len(seatAssignments') = Len(seatAssignments) + 1
             /\ SeatOf(seatAssignments'[Len(seatAssignments')]) = lastEvent'.seat
             /\ \E k \in 1..Len(students) :
                  seatAssignments'[Len(seatAssignments')].student = students[k]
    ]_vars

\* C20 witness: the camera was refused (no stream was ever stored) and the
\* recognition has succeeded and appended an entry for the recognized student.
C20_Witness ==
  /\ lastEvent.op = "studentRecognized"
  /\ ~streamRef
  /\ ~renderedStream
  /\ recognitionStatus = "success"
  /\ Len(seatAssignments) = lastEvent.preLen + 1
  /\ seatAssignments[Len(seatAssignments)].student = lastRecognized

\* C21: in the FacialRecognition component isScanning is true exactly when
\* recognitionStatus is 'scanning'.
C21_ScanningIffStatus ==
  isScanning <=> (recognitionStatus = "scanning")

\* The component shows no scan and no outcome.
AtRest ==
  /\ ~isScanning
  /\ recognitionStatus = "idle"
  /\ lastRecognized = NULL

\* A scan has just completed.
ScanCompleted == lastEvent.op \in {"studentRecognized", "recognitionFailed"}

\* The scan that a step has just started: the continuation it registered.
StartedScan == pending'[Len(pending')]

\* The scan whose 2000 ms timer is the next to fire.
CompletingScan ==
  pending[CHOOSE i \in 1..Len(pending) :
            /\ pending[i].kind = "delay"
            /\ \A j \in 1..(i - 1) : pending[j].kind # "delay"]

\* The scan whose 3000 ms timer is the next to fire.
ResettingScan ==
  pending[CHOOSE i \in 1..Len(pending) :
            /\ pending[i].kind = "reset"
            /\ \A j \in 1..(i - 1) : pending[j].kind = "camera"]

\* What the steps of a scan do. While the component that started the scan is
\* mounted, the start sets the status to scanning and isScanning, the
\* completion sets success or failed and ends the scanning, and the reset sets
\* idle and no student shown; once that component has unmounted, the steps of
\* its scan leave the component state alone. A refused request changes no
\* state.
ScanSteps ==
  [][ /\ lastEvent'.op = "scanRefused" =>
            /\ Len(students) = 0
            /\ UNCHANGED <<indexVars, recogVars, pending>>
      /\ lastEvent'.op = "scanStarted" =>
            /\ StartedScan.kind = "delay"
            /\ Len(StartedScan.students) > 0
            /\ IF StartedScan.live
               THEN isScanning' /\ recognitionStatus' = "scanning"
               ELSE UNCHANGED <<isScanning, recognitionStatus, lastRecognized>>
      /\ lastEvent'.op = "studentRecognized" =>
            IF CompletingScan.live
            THEN ~isScanning' /\ recognitionStatus' = "success"
            ELSE UNCHANGED <<isScanning, recognitionStatus, lastRecognized>>
      /\ lastEvent'.op = "recognitionFailed" =>
            IF CompletingScan.live
            THEN ~isScanning' /\ recognitionStatus' = "failed"
            ELSE UNCHANGED <<isScanning, recognitionStatus, lastRecognized>>
      /\ lastEvent'.op = "statusReset" =>
            IF ResettingScan.live
            THEN recognitionStatus' = "idle" /\ lastRecognized' = NULL
            ELSE UNCHANGED <<isScanning, recognitionStatus, lastRecognized>>
    ]_vars

\* C22 as stated, its steps read for the component that is mounted: a scan
\* that starts with a registered student sets the status to scanning, its
\* delay leads to its completion, which sets success or failed and ends the
\* scanning, and the scan leads to the state with isScanning false, status idle
\* and no student shown; a scan requested with no registered student changes
\* no state.
C22_EveryScanEndsAtRest ==
  /\ ScanSteps
  /\ (lastEvent.op = "scanStarted") ~> ScanCompleted
  /\ (lastEvent.op = "scanStarted") ~> AtRest

\* C22, amended: every scan that starts with a registered student completes.
\* While the component that started it is mounted, the start sets the status
\* to scanning and isScanning, the completion sets success or failed and ends
\* the scanning, and the reset sets idle and no student shown; once that
\* component has unmounted, the start, the completion and the reset of its
\* scan leave the component state alone. After a completion the status comes
\* to idle with no student shown, and the component comes to isScanning false,
\* status idle and no student shown unless a further scan is started before
\* that. A scan requested with no registered student changes no state.
C22_ScanEventuallyFinishes ==
  /\ ScanSteps
  /\ (lastEvent.op = "scanStarted") ~> ScanCompleted
  /\ ScanCompleted ~> (recognitionStatus = "idle" /\ lastRecognized = NULL)
  /\ ScanCompleted ~> (AtRest \/ lastEvent.op = "scanStarted")

\* C22 witness: two scans started one after the other have both recognized
\* the student and appended an entry, their reset timers have fired, no timer
\* is left and the component is at rest again.
C22_Witness ==
  /\ lastEvent.op = "statusReset"
  /\ AtRest
  /\ pending = <<>>
  /\ Len(students) = 1
  /\ Len(seatAssignments) = 2

====
